---------------------------- MODULE Spec2Model ----------------------------
(***************************************************************************)
(* A model of the ReplyGuy run orchestrator (src/src/bot.py), its history  *)
(* store (src/src/database.py), the candidate extraction it consumes       *)
(* (src/src/fetch_posts.py), the suitability filter                        *)
(* (src/src/reply_engine.py) and the reply dispatch (src/src/action.py).   *)
(*                                                                         *)
(* Time is kept as the difference time.time() - self.last_reply_time, the  *)
(* only form in which the orchestrator reads the clock (bot.py:247). The   *)
(* difference saturates at TimeCap, the one value the code compares it     *)
(* with: at or above it the rate-limiting block does nothing.              *)
(*                                                                         *)
(* A local of run_once that the code can no longer read (search_attempts   *)
(* after the search loop; found_candidate, post_data and reply_text once   *)
(* the iteration is over; every local once run_once has returned or has    *)
(* been unwound) is put back to its initial value at that point: run_once  *)
(* assigns each of them again before its next use.                         *)
(*                                                                         *)
(* Spec is the process from start to exit. UnitSpec runs one component on  *)
(* its own, the orchestrator at rest: one call of generate_reply through   *)
(* its retry loop, of is_appropriate_tweet, of the body of the selection   *)
(* loop on one element, or of reply_to_tweet through its three steps.      *)
(* Under Spec the variables of the components stay as HarnessAtRest        *)
(* leaves them.                                                            *)
(***************************************************************************)
EXTENDS Integers, Sequences, FiniteSets, TLC

VARIABLES
    pc,                   \* position of the single thread of control
    continuous,           \* start(continuous=...)            bot.py:296
    manual_approval,      \* self.manual_approval             bot.py:47
    conn,                 \* Database.conn: "open", "none" (connect failed), "closed"
    db,                   \* rows of table replied_tweets     database.py:30
    replies_made,         \* run_once local                   bot.py:147
    consecutive_failures, \* run_once local                   bot.py:148
    search_attempts,      \* run_once local                   bot.py:170
    found_candidate,      \* run_once local                   bot.py:166
    post_data,            \* run_once local                   bot.py:167
    reply_text,           \* run_once local                   bot.py:233
    success,              \* run_once local                   bot.py:256
    time_since_last,      \* time.time() - self.last_reply_time, saturated
    written,              \* history: per tweet id, the writes of its row so far
    attempted,            \* history: tweet ids handed to the generator in this run
    store_ok,             \* history: every store operation of this run worked
    succeeded,            \* history: tweet ids whose submission returned True in
                          \* this run, kept while store_ok
    added,                \* history: tweet ids whose row was written in this run,
                          \* kept while store_ok
    session,              \* what start made of setup_driver and login_if_needed
    operator,             \* what the operator watching the console makes of the
                          \* reply shown for approval
    cookies,              \* what became of the cookie file of this process
    failed_cycles,        \* history: the selection cycles of this run that failed
                          \* since the last one that selected a candidate
    unit,                 \* "bot", or the component that is run on its own
    unit_pc,              \* position in the call of that component
    attempt,              \* generate_reply local           reply_engine.py:143
    responses,            \* generate_reply: the backend responses so far
    sleeps,               \* generate_reply: the backoffs slept so far
    gen_reply,            \* generate_reply local reply, then the return value
    filter_text,          \* is_appropriate_tweet: its argument
    appropriate,          \* is_appropriate_tweet: its return value, as a string
    article_element,      \* the element of the for loop     bot.py:183
    p_data,               \* run_once local                  bot.py:186
    steps,                \* reply_to_tweet: how each step so far ended
    returned,             \* reply_to_tweet: its return value, as a string
    visible_elements,     \* run_once local, after the shuffle  bot.py:178-181
    skipped               \* the for loop: why each element so far was passed over

vars == <<pc, continuous, manual_approval, conn, db, replies_made,
          consecutive_failures, search_attempts, found_candidate, post_data,
          reply_text, success, time_since_last, written, attempted,
          store_ok, succeeded, added, session, operator, cookies, failed_cycles,
          unit, unit_pc, attempt, responses, sleeps, gen_reply,
          filter_text, appropriate, article_element, p_data, steps, returned,
          visible_elements, skipped>>

\* the state of the components when they are run on their own
harness == <<unit, unit_pc, attempt, responses, sleeps, gen_reply,
             filter_text, appropriate, article_element, p_data, steps, returned,
             visible_elements, skipped>>

None == "None"
\* the value of a text the extraction did not find: None or ""
NoText == ""
\* post_data = None, and the None that extract_post_data returns
NoPost == [tweet_id |-> None, username |-> None, text |-> NoText, element |-> None]

---------------------------------------------------------------------------
(* Program constants and model bounds *)

\* bot.py:149
MAX_FAILURES == 5
\* bot.py:171, while ... search_attempts < 10
MAX_SEARCH_ATTEMPTS == 10
\* bot.py:55
min_delay_between_replies == 30
\* bot.py:244, time.sleep(5) of the manual-approval branch
APPROVAL_SLEEP == 5
\* fetch_posts.py:133, len(text) < 10
MIN_TEXT_LEN == 10
\* reply_engine.py:269, len(tweet_text.strip()) < 10
MIN_STRIPPED_LEN == 10
\* reply_engine.py:273, len(tweet_text) > 20
CAPS_LEN == 20
\* bot.py:265, random.uniform(20, 40)
SLEEP_MIN == 20
SLEEP_MAX == 40

\* self.max_replies_per_run (bot.py:54, set from --max-replies in main.py:52)
max_replies_per_run == 2
\* the largest number of article elements one scan of the feed returns
MaxVisible == 2
\* the count of the writes of one row stops here
MaxWrites == 2

\* the clock difference saturates here
TimeCap == min_delay_between_replies

Min(a, b) == IF a < b THEN a ELSE b
Advance(t, d) == Min(t + d, TimeCap)

---------------------------------------------------------------------------
(* Text: a string is a sequence of one-character strings *)

UpperChars == <<"A","B","C","D","E","F","G","H","I","J","K","L","M","N","O","P","Q","R","S","T","U","V","W","X","Y","Z">>
LowerChars == <<"a","b","c","d","e","f","g","h","i","j","k","l","m","n","o","p","q","r","s","t","u","v","w","x","y","z">>

IsUpperChar(c) == \E i \in 1..26 : UpperChars[i] = c
IsLowerChar(c) == \E i \in 1..26 : LowerChars[i] = c
LowerChar(c) == IF IsUpperChar(c) THEN LowerChars[CHOOSE i \in 1..26 : UpperChars[i] = c] ELSE c

\* str.lower()
lower(s) == [i \in 1..Len(s) |-> LowerChar(s[i])]

\* str.isupper(): at least one cased character and no lower-case one
isupper(s) ==
    /\ \E i \in 1..Len(s) : IsUpperChar(s[i])
    /\ \A i \in 1..Len(s) : ~IsLowerChar(s[i])

\* word in s
Contains(word, s) ==
    \E i \in 1..(Len(s) - Len(word) + 1) : SubSeq(s, i, i + Len(word) - 1) = word

IsSpace(c) == c = " "

\* str.strip()
strip(s) ==
    LET keep == {i \in 1..Len(s) : ~IsSpace(s[i])}
    IN  IF keep = {} THEN <<>>
        ELSE LET lo == CHOOSE i \in keep : \A j \in keep : i <= j
                 hi == CHOOSE i \in keep : \A j \in keep : j <= i
             IN  SubSeq(s, lo, hi)

\* the characters of the texts the feed shows and of the texts the filter
\* is tried on
Chars(text) ==
    CASE text = "short" ->
           <<"s","h","o","r","t">>
      [] text = "I love debugging at 2am" ->
           <<"I"," ","l","o","v","e"," ","d","e","b","u","g","g","i","n","g"," ","a","t"," ","2","a","m">>
      [] text = "microservices are overrated" ->
           <<"m","i","c","r","o","s","e","r","v","i","c","e","s"," ","a","r","e"," ","o","v","e","r","r","a","t","e","d">>
      [] text = "that demo was a bomb" ->
           <<"t","h","a","t"," ","d","e","m","o"," ","w","a","s"," ","a"," ","b","o","m","b">>
      [] text = "   " ->
           <<" "," "," ">>
      [] text = "ninechars" ->
           <<"n","i","n","e","c","h","a","r","s">>
      [] text = "tenchars!!" ->
           <<"t","e","n","c","h","a","r","s","!","!">>
      [] text = "  padded  " ->
           <<" "," ","p","a","d","d","e","d"," "," ">>
      [] text = " tenchars!! " ->
           <<" ","t","e","n","c","h","a","r","s","!","!"," ">>
      [] text = "That Demo Was A BOMB!" ->
           <<"T","h","a","t"," ","D","e","m","o"," ","W","a","s"," ","A"," ","B","O","M","B","!">>
      [] text = "the skill gap is real" ->
           <<"t","h","e"," ","s","k","i","l","l"," ","g","a","p"," ","i","s"," ","r","e","a","l">>
      [] text = "SHIP IT TODAY TEAM!!" ->
           <<"S","H","I","P"," ","I","T"," ","T","O","D","A","Y"," ","T","E","A","M","!","!">>
      [] text = "SHIP IT TODAY, TEAM!!" ->
           <<"S","H","I","P"," ","I","T"," ","T","O","D","A","Y",","," ","T","E","A","M","!","!">>
      [] text = "Ship It Today, Team!!" ->
           <<"S","h","i","p"," ","I","t"," ","T","o","d","a","y",","," ","T","e","a","m","!","!">>
      [] text = "1234567890 1234567890" ->
           <<"1","2","3","4","5","6","7","8","9","0"," ","1","2","3","4","5","6","7","8","9","0">>
      [] text = "SHIPPED IT            " ->
           <<"S","H","I","P","P","E","D"," ","I","T"," "," "," "," "," "," "," "," "," "," "," "," ">>
      [] text = "KILL THE BUILD SERVER NOW" ->
           <<"K","I","L","L"," ","T","H","E"," ","B","U","I","L","D"," ","S","E","R","V","E","R"," ","N","O","W">>
      [] text = "gun" ->
           <<"g","u","n">>
      [] OTHER -> <<>>

\* reply_engine.py:256
blocklist == {
    <<"k","i","l","l">>, <<"d","e","a","t","h">>, <<"d","i","e">>,
    <<"s","u","i","c","i","d","e">>, <<"h","a","t","e">>,
    <<"v","i","o","l","e","n","c","e">>, <<"a","t","t","a","c","k">>,
    <<"w","a","r">>, <<"t","e","r","r","o","r">>, <<"b","o","m","b">>,
    <<"g","u","n">>, <<"w","e","a","p","o","n">> }

\* the filter measuring the text as it came, not stripped
is_appropriate_tweet_unstripped(tweet_text) ==
    IF tweet_text = NoText THEN FALSE
    ELSE IF \E word \in blocklist : Contains(word, lower(Chars(tweet_text))) THEN FALSE
    ELSE IF Len(Chars(tweet_text)) < MIN_STRIPPED_LEN THEN FALSE
    ELSE IF isupper(Chars(tweet_text)) /\ Len(Chars(tweet_text)) > CAPS_LEN THEN FALSE
    ELSE TRUE

\* ReplyEngine.is_appropriate_tweet
is_appropriate_tweet(tweet_text) ==
    IF tweet_text = NoText THEN FALSE
    ELSE IF \E word \in blocklist : Contains(word, lower(Chars(tweet_text))) THEN FALSE
    ELSE IF Len(strip(Chars(tweet_text))) < MIN_STRIPPED_LEN THEN FALSE
    ELSE IF isupper(Chars(tweet_text)) /\ Len(Chars(tweet_text)) > CAPS_LEN THEN FALSE
    ELSE TRUE

\* the texts is_appropriate_tweet is tried on
FilterTexts == {NoText, "short", "I love debugging at 2am",
                "microservices are overrated", "that demo was a bomb",
                "   ",
                "ninechars",
                "tenchars!!",
                "  padded  ",
                " tenchars!! ",
                "That Demo Was A BOMB!",
                "the skill gap is real",
                "SHIP IT TODAY TEAM!!",
                "SHIP IT TODAY, TEAM!!",
                "Ship It Today, Team!!",
                "1234567890 1234567890",
                "SHIPPED IT            ",
                "KILL THE BUILD SERVER NOW",
                "gun"}

---------------------------------------------------------------------------
(* The feed: the article elements the live view can show *)

\* what the extract_* helpers of PostFetcher find in each element
\* (None: the helper returned None)
Elements == {
    [element |-> "e1", tweet_id |-> "1",  username |-> "ann", text |-> "short"],
    [element |-> "e2", tweet_id |-> "2",  username |-> None,  text |-> "microservices are overrated"],
    [element |-> "e3", tweet_id |-> "3",  username |-> "bob", text |-> "I love debugging at 2am"],
    [element |-> "e4", tweet_id |-> "4",  username |-> "cat", text |-> "that demo was a bomb"],
    [element |-> "e5", tweet_id |-> None, username |-> "dan", text |-> "I love debugging at 2am"] }

TweetIds == {e.tweet_id : e \in Elements} \ {None}

\* no element at hand
NoElement == [element |-> None, tweet_id |-> None, username |-> None, text |-> NoText]

\* the elements the body of the for loop is tried on
CandidateElements ==
    {[element |-> "e", tweet_id |-> i, username |-> u, text |-> t] :
        i \in {None, "1", "2"}, u \in {None, "ann"},
        t \in {NoText, "short", "ninechars", "tenchars!!",
               "microservices are overrated", "that demo was a bomb"}}

\* the extraction without the test of the tweet id
extract_post_data_any_id(element) ==
    IF element.text = NoText THEN NoPost
    ELSE IF Len(Chars(element.text)) < MIN_TEXT_LEN THEN NoPost
    ELSE [tweet_id |-> element.tweet_id,
          username |-> IF element.username = None THEN "unknown"
                       ELSE element.username,
          text     |-> element.text,
          element  |-> element.element]

\* PostFetcher.extract_post_data
extract_post_data(element) ==
    IF element.tweet_id = None THEN NoPost
    ELSE IF element.text = NoText THEN NoPost
    ELSE IF Len(Chars(element.text)) < MIN_TEXT_LEN THEN NoPost
    ELSE [tweet_id |-> element.tweet_id,
          username |-> IF element.username = None THEN "unknown"
                       ELSE element.username,
          text     |-> element.text,
          element  |-> element.element]

\* extract_post_data and is_appropriate_tweet on each element of the feed
Extracted == [e \in Elements |-> extract_post_data(e)]
Appropriate == {e \in Elements : is_appropriate_tweet(e.text)}

\* the posts that is_appropriate_tweet lets through
Suitable == {Extracted[e] : e \in Appropriate}

\* PostFetcher.get_visible_tweet_elements: any few elements of the feed
VisibleSets == {v \in SUBSET Elements : Cardinality(v) <= MaxVisible}

\* the elements in view in the order the shuffle left them
MaxListed == 3
VisibleLists ==
    {l \in UNION {[1..n -> Elements] : n \in 1..MaxListed} :
        \A i, j \in 1..Len(l) : i # j => l[i] # l[j]}

\* what ReplyEngine.generate_reply can return
Replies == {"Well said.", "Solid take btw."}

\* random.uniform(20, 40), in steps of 10 s
SleepChoices == {SLEEP_MIN, 30, SLEEP_MAX}

\* what a call of unknown length adds to the clock
Durations == {0, 10}

---------------------------------------------------------------------------
(* History store *)

\* has_replied taking a store it cannot read for one that holds the row
has_replied_fails_closed(tweet_id, err) ==
    IF conn # "open" \/ err THEN TRUE
    ELSE \E r \in db : r.tweet_id = tweet_id

\* Database.has_replied; err: the query raised
has_replied(tweet_id, err) ==
    IF conn # "open" \/ err THEN FALSE
    ELSE \E r \in db : r.tweet_id = tweet_id

\* a plain INSERT into a table without the PRIMARY KEY
InsertOnly(rows, row) == rows \cup {row}

\* INSERT OR REPLACE on the PRIMARY KEY tweet_id
InsertOrReplace(rows, row) ==
    {r \in rows : r.tweet_id # row.tweet_id} \cup {row}

\* Database.mark_replied: the table after the call; err: the statement raised
mark_replied(tweet_id, username, tweet_text, reply, err) ==
    IF conn # "open" \/ err THEN db
    ELSE InsertOrReplace(db, [tweet_id |-> tweet_id, username |-> username,
                              tweet_text |-> tweet_text, reply_text |-> reply])

InStore(tweet_id) == \E r \in db : r.tweet_id = tweet_id

---------------------------------------------------------------------------
(* Reply dispatch *)

\* ActionPerformer.reply_to_tweet: the three steps in order, each a boolean
reply_to_tweet(click_ok, type_ok, post_ok) ==
    IF ~click_ok THEN FALSE
    ELSE IF ~type_ok THEN FALSE
    ELSE IF ~post_ok THEN FALSE
    ELSE TRUE

---------------------------------------------------------------------------
(* Reply generation: the text operations of ReplyEngine.generate_reply *)

\* reply_engine.py:142
max_retries == 3
\* reply_engine.py:173, len(reply) > 200
MAX_REPLY_LEN == 200
\* reply_engine.py:175, reply[:197]
CUT_LEN == 197
\* reply_engine.py:182, len(reply) < 5
MIN_REPLY_LEN == 5

Rep(c, n) == [i \in 1..n |-> c]

\* s[:n] and s[n:]
Take(s, n) == SubSeq(s, 1, Min(n, Len(s)))
Drop(s, n) == SubSeq(s, n + 1, Len(s))

\* str.startswith, str.endswith
startswith(s, p) == Len(s) >= Len(p) /\ SubSeq(s, 1, Len(p)) = p
endswith(s, p) == Len(s) >= Len(p) /\ SubSeq(s, Len(s) - Len(p) + 1, Len(s)) = p

\* where old occurs in s
Occurrences(s, old) ==
    {i \in 1..(Len(s) - Len(old) + 1) : SubSeq(s, i, i + Len(old) - 1) = old}

\* s.replace(old, ""), old not empty: the occurrences go, from left to right
RECURSIVE remove_all(_, _)
remove_all(s, old) ==
    IF Occurrences(s, old) = {} THEN s
    ELSE LET first == CHOOSE i \in Occurrences(s, old) :
                         \A j \in Occurrences(s, old) : i <= j
         IN  Take(s, first - 1) \o remove_all(Drop(s, first + Len(old) - 1), old)

\* code points of the characters written here by name; every other
\* character of the model is ASCII
CodePoint(c) ==
    CASE c = "U+1F680" -> 128640
      [] c = "U+2764"  -> 10084
      [] c = "U+00E9"  -> 233
      [] OTHER         -> 0

\* the character class of emoji_pattern, reply_engine.py:208-213
emoji_ranges == { <<128512, 128591>>, <<127744, 128511>>, <<128640, 128767>>,
                  <<127462, 127487>>, <<9986, 10160>>, <<9410, 127569>> }

InEmojiPattern(c) ==
    \E r \in emoji_ranges : r[1] <= CodePoint(c) /\ CodePoint(c) <= r[2]

\* ReplyEngine._remove_emojis
_remove_emojis(text) == strip(SelectSeq(text, LAMBDA c : ~InEmojiPattern(c)))

\* reply_engine.py:160
prefixes_to_remove == <<
    <<"R","e","p","l","y",":">>,
    <<"r","e","p","l","y",":">>,
    <<"R","e","s","p","o","n","s","e",":">>,
    <<"r","e","s","p","o","n","s","e",":">>,
    <<"H","e","r","e","'","s">>,
    <<"H","e","r","e"," ","i","s">> >>

\* reply_engine.py:151
END_OF_TURN == <<"<","e","n","d","_","o","f","_","t","u","r","n",">">>

\* ReplyEngine._fallback_reply: the phrases random.choice draws from
fallbacks == {
    <<"I","n","t","e","r","e","s","t","i","n","g","!">>,
    <<"G","r","e","a","t"," ","p","o","i","n","t",","," ","d","e","f","i","n","i","t","e","l","y"," ","s","o","m","e","t","h","i","n","g"," ","t","o"," ","t","h","i","n","k"," ","a","b","o","u","t",".">>,
    <<"L","o","v","e"," ","s","e","e","i","n","g"," ","t","h","i","s"," ","k","i","n","d"," ","o","f"," ","c","o","n","t","e","n","t",","," ","k","e","e","p"," ","i","t"," ","u","p",".">>,
    <<"S","o","l","i","d"," ","t","a","k","e"," ","b","t","w",".">>,
    <<"S","o","u","n","d","s"," ","i","n","t","e","r","e","s","t","i","n","g",".">>,
    <<"N","i","c","e"," ","p","e","r","s","p","e","c","t","i","v","e"," ","o","n"," ","t","h","i","s",".">>,
    <<"W","e","l","l"," ","s","a","i","d",".">>,
    <<"G","o","o","d"," ","s","t","u","f","f",".">>,
    <<"T","h","a","t","'","s"," ","a"," ","g","r","e","a","t"," ","t","h","o","u","g","h","t",".">>,
    <<"A","p","p","r","e","c","i","a","t","e"," ","t","h","i","s"," ","i","n","s","i","g","h","t",".">>,
    <<"G","l","a","d"," ","y","o","u"," ","s","h","a","r","e","d"," ","t","h","i","s",".">>,
    <<"T","h","i","s"," ","i","s"," ","w","o","r","t","h"," ","r","e","f","l","e","c","t","i","n","g"," ","o","n",".">>,
    <<"S","t","r","o","n","g"," ","p","o","i","n","t"," ","y","o","u"," ","m","a","d","e"," ","h","e","r","e",".">>,
    <<"T","h","a","n","k","s"," ","f","o","r"," ","t","h","e"," ","p","e","r","s","p","e","c","t","i","v","e",".">>,
    <<"R","e","a","l","l","y"," ","l","i","k","e"," ","t","h","i","s"," ","v","i","e","w","p","o","i","n","t",".">>,
    <<"G","o","o","d"," ","p","o","i","n","t",","," ","a","p","p","r","e","c","i","a","t","e"," ","y","o","u"," ","s","h","a","r","i","n","g",".">>,
    <<"T","h","i","s"," ","m","a","k","e","s"," ","s","e","n","s","e"," ","t","o"," ","m","e",".">>,
    <<"N","i","c","e"," ","o","n","e",","," ","t","h","a","n","k","s"," ","f","o","r"," ","s","h","a","r","i","n","g",".">>,
    <<"T","h","o","u","g","h","t","f","u","l"," ","t","a","k","e"," ","o","n"," ","t","h","i","s",".">>,
    <<"L","o","v","e"," ","t","h","i","s"," ","k","i","n","d"," ","o","f"," ","d","i","s","c","u","s","s","i","o","n",".">> }

\* reply_engine.py:154-157, for one quote character
unquote(reply, q) ==
    IF startswith(reply, <<q>>) /\ endswith(reply, <<q>>)
    THEN strip(SubSeq(reply, 2, Len(reply) - 1))
    ELSE reply

\* the body of the loop over prefixes_to_remove, reply_engine.py:162-166
remove_prefix(reply, prefix) ==
    IF startswith(lower(reply), lower(prefix))
    THEN LET rest == strip(Drop(reply, Len(prefix)))
         IN  IF startswith(rest, <<":">>) THEN strip(Drop(rest, 1)) ELSE rest
    ELSE reply

\* the loop over prefixes_to_remove from the i-th prefix on
RECURSIVE remove_prefixes(_, _)
remove_prefixes(reply, i) ==
    IF i > Len(prefixes_to_remove) THEN reply
    ELSE remove_prefixes(remove_prefix(reply, prefixes_to_remove[i]), i + 1)

\* reply.rfind('.') within reply[:197], counted from 1
last_period(reply) ==
    LET at == {i \in 1..Min(CUT_LEN, Len(reply)) : reply[i] = "."}
    IN  CHOOSE i \in at : \A j \in at : j <= i

\* the length cap cutting at 200 characters before the dots are added
truncate_long(reply) ==
    IF Len(reply) > MAX_REPLY_LEN
    THEN IF \E i \in 1..Min(CUT_LEN, Len(reply)) : reply[i] = "."
         THEN Take(reply, last_period(reply))
         ELSE Take(reply, MAX_REPLY_LEN) \o <<".", ".", ".">>
    ELSE reply

\* the cut made at the first period, reply[:197].find('.')
truncate_first_period(reply) ==
    IF Len(reply) > MAX_REPLY_LEN
    THEN IF \E i \in 1..Min(CUT_LEN, Len(reply)) : reply[i] = "."
         THEN Take(reply, CHOOSE i \in 1..Min(CUT_LEN, Len(reply)) :
                             /\ reply[i] = "."
                             /\ \A j \in 1..(i - 1) : reply[j] # ".")
         ELSE Take(reply, CUT_LEN) \o <<".", ".", ".">>
    ELSE reply

\* reply_engine.py:173-179
truncate(reply) ==
    IF Len(reply) > MAX_REPLY_LEN
    THEN IF \E i \in 1..Min(CUT_LEN, Len(reply)) : reply[i] = "."
         THEN Take(reply, last_period(reply))
         ELSE Take(reply, CUT_LEN) \o <<".", ".", ".">>
    ELSE reply

\* reply_engine.py:151-170: the response without the end-of-turn tokens, the
\* quotes around it, the prefixes and the emojis
tidy(reply) ==
    _remove_emojis(
      remove_prefixes(
        unquote(unquote(strip(remove_all(reply, END_OF_TURN)), "\""), "'"),
        1))

\* reply_engine.py:151-179: what one attempt makes of a non-empty response
clean_reply(reply) == truncate(tidy(reply))

\* ReplyEngine._query_ollama: the text of the response, stripped, or None
\* (the empty text here: line 147 treats the two alike) on any error
_query_ollama(response) ==
    IF response.error THEN <<>> ELSE strip(response.text)

\* one pass of the retry loop without the test of lines 182-183
attempt_raises_on_empty(response) ==
    _query_ollama(response) = <<>>

\* one pass of the retry loop raises ValueError: lines 147-148 and 182-183
attempt_raises(response) ==
    \/ _query_ollama(response) = <<>>
    \/ Len(clean_reply(_query_ollama(response))) < MIN_REPLY_LEN

---------------------------------------------------------------------------
(* The backend: the responses one request to Ollama can end in *)

ResponseIds == {"error", "empty", "blank", "two", "four", "five", "plain",
                "wrapped", "prefix_only", "token", "emoji", "accent",
                "len200", "len201", "period_197", "period_198",
                "period_early", "two_periods"}

Text(t) == [error |-> FALSE, text |-> t]

\* error: the request or the parsing of its answer raised
Response(id) ==
    CASE id = "error"        -> [error |-> TRUE, text |-> <<>>]
      [] id = "empty"        -> Text(<<>>)
      [] id = "blank"        -> Text(<<" ", " ">>)
      [] id = "two"          -> Text(<<"o","k">>)
      [] id = "four"         -> Text(<<"Y","e","s",".">>)
      [] id = "five"         -> Text(<<"Y","e","s","!","!">>)
      [] id = "plain"        -> Text(<<"N","i","c","e"," ","t","a","k","e"," ","o","n"," ","t","h","i","s",".">>)
      [] id = "wrapped"      -> Text(<<"\"","R","e","p","l","y",":"," ","H","e","r","e","'","s",":"," ","N","i","c","e"," ","t","a","k","e",".","\"">>)
      [] id = "prefix_only"  -> Text(<<"R","e","s","p","o","n","s","e",":"," ","o","k">>)
      [] id = "token"        -> Text(<<"G","o","o","d"," ","s","t","u","f","f"," ","h","e","r","e","<","e","n","d","_","o","f","_","t","u","r","n",">">>)
      [] id = "emoji"        -> Text(<<"N","i","c","e"," ">> \o <<"U+1F680", "U+2764">>)
      [] id = "accent"       -> Text(<<"c","a","f","U+00E9"," ","t","i","m","e">>)
      [] id = "len200"       -> Text(Rep("a", 200))
      [] id = "len201"       -> Text(Rep("a", 201))
      [] id = "period_197"   -> Text(Rep("a", 196) \o <<".">> \o Rep("b", 100))
      [] id = "period_198"   -> Text(Rep("a", 197) \o <<".">> \o Rep("b", 50))
      [] id = "period_early" -> Text(<<"a", "b", ".">> \o Rep("c", 220))
      [] id = "two_periods"  -> Text(Rep("a", 50) \o <<".">> \o Rep("b", 50) \o <<".">> \o Rep("c", 150))

\* per response: whether the attempt raises, and the reply it returns if not
raises == [id \in ResponseIds |-> attempt_raises(Response(id))]
cleaned == [id \in ResponseIds |->
              IF raises[id] THEN <<>> ELSE clean_reply(_query_ollama(Response(id)))]
\* per response: the reply of the attempt as it is before the length cap
tidied == [id \in ResponseIds |-> tidy(_query_ollama(Response(id)))]

\* how a step of the reply flow can end: done, given up (an element was
\* not found), or by an exception inside the step
StepOutcomes == {"done", "failed", "raised"}
\* post_reply can also end without the confirmation that the box closed
PostOutcomes == StepOutcomes \cup {"unconfirmed"}

\* ActionPerformer.click_reply_button, type_reply: True when done; the
\* except Exception of each turns an exception into False
click_reply_button(outcome) == outcome = "done"
type_reply(outcome) == outcome = "done"
\* post_reply returning True only when the reply box was seen to close
post_reply_confirmed(outcome) == outcome = "done"

\* ActionPerformer.post_reply: True also when the wait for the box to
\* close times out
post_reply(outcome) == outcome \in {"done", "unconfirmed"}

---------------------------------------------------------------------------
(* The process *)

RunPcs == {"RunOnce", "LoopHead", "Scanning", "Generating", "Approval",
           "RateLimiting", "Submitting", "Submitted"}
RunEndPcs == {"QuotaReached", "Aborted", "CriticalError"}

\* a row left by an earlier process
OldRow == [tweet_id |-> "2", username |-> "unknown", tweet_text |-> "microservices are overrated",
           reply_text |-> "Well said."]

\* no component is run on its own
HarnessAtRest ==
    /\ unit = "bot"
    /\ unit_pc = "Idle" /\ attempt = 0 /\ responses = <<>> /\ sleeps = 0
    /\ gen_reply = <<>>
    /\ filter_text = NoText /\ appropriate = "none"
    /\ article_element = NoElement /\ p_data = NoPost
    /\ steps = <<>> /\ returned = "none"
    /\ visible_elements = <<>> /\ skipped = <<>>

Init ==
    /\ pc = "Start"
    /\ continuous \in BOOLEAN
    /\ manual_approval \in BOOLEAN
    /\ conn \in {"open", "none"}
    /\ db \in {{}, {OldRow}}
    /\ replies_made = 0
    /\ consecutive_failures = 0
    /\ search_attempts = 0
    /\ found_candidate = FALSE
    /\ post_data = NoPost
    /\ reply_text = None
    /\ success = "none"
    /\ time_since_last = TimeCap
    /\ written = [t \in TweetIds |-> IF \E r \in db : r.tweet_id = t THEN 1 ELSE 0]
    /\ attempted = {}
    /\ store_ok = (conn = "open") /\ succeeded = {} /\ added = {}
    /\ session = "none"
    /\ operator = "none"
    /\ cookies = "none"
    /\ failed_cycles = 0
    /\ HarnessAtRest

locals == <<replies_made, consecutive_failures, search_attempts,
            found_candidate, post_data, reply_text, success>>
config == <<continuous, manual_approval>>
history == <<written, attempted>>
accounting == <<store_ok, succeeded, added>>

\* start going on to the run without the test of login_if_needed
start_without_login ==
    /\ pc = "Start"
    /\ \E setup_ok \in BOOLEAN, login_ok \in BOOLEAN :
          /\ session' = IF ~setup_ok THEN "no_driver"
                        ELSE IF ~login_ok THEN "login_failed"
                        ELSE "ready"
          /\ pc' = IF setup_ok THEN "RunOnce" ELSE "Finally"
    /\ UNCHANGED <<operator, failed_cycles, harness, cookies, config, conn, db, locals, time_since_last, history,
                   accounting>>

\* XReplyBot.start up to the run: setup_driver and login_if_needed
start ==
    /\ pc = "Start"
    /\ \E setup_ok \in BOOLEAN, login_ok \in BOOLEAN :
          /\ session' = IF ~setup_ok THEN "no_driver"
                        ELSE IF ~login_ok THEN "login_failed"
                        ELSE "ready"
          /\ pc' = IF setup_ok /\ login_ok THEN "RunOnce" ELSE "Finally"
    /\ UNCHANGED <<operator, failed_cycles, harness, cookies, config, conn, db, locals, time_since_last, history,
                   accounting>>

\* run_once beginning with self.last_reply_time back at 0
run_once_enter_fresh_clock ==
    /\ pc = "RunOnce"
    /\ replies_made' = 0
    /\ consecutive_failures' = 0
    /\ attempted' = {}
    /\ store_ok' = (conn = "open") /\ succeeded' = {} /\ added' = {}
    /\ \E get_ok \in BOOLEAN :
          pc' = IF get_ok THEN "LoopHead" ELSE "CriticalError"
    /\ failed_cycles' = 0
    /\ time_since_last' = TimeCap
    /\ UNCHANGED <<session, operator, harness, cookies, config, conn, db, search_attempts, found_candidate, post_data,
                   reply_text, success, written>>

\* run_once, up to the loop
run_once_enter ==
    /\ pc = "RunOnce"
    /\ replies_made' = 0
    /\ consecutive_failures' = 0
    /\ attempted' = {}
    /\ store_ok' = (conn = "open") /\ succeeded' = {} /\ added' = {}
    /\ \E get_ok \in BOOLEAN :
          pc' = IF get_ok THEN "LoopHead" ELSE "CriticalError"
    /\ failed_cycles' = 0
    /\ UNCHANGED <<session, operator, harness, cookies, config, conn, db, search_attempts, found_candidate, post_data,
                   reply_text, success, time_since_last, written>>

\* the loop test written as replies_made <= self.max_replies_per_run
loop_head_le ==
    /\ pc = "LoopHead"
    /\ IF replies_made <= max_replies_per_run
       THEN /\ pc' = "Scanning"
            /\ found_candidate' = FALSE
            /\ post_data' = NoPost
            /\ search_attempts' = 0
       ELSE /\ pc' = "QuotaReached"
            /\ UNCHANGED <<found_candidate, post_data, search_attempts>>
    /\ UNCHANGED <<session, operator, failed_cycles, harness, cookies, config, conn, db, replies_made, consecutive_failures,
                   reply_text, success, time_since_last, history, accounting>>

\* while replies_made < self.max_replies_per_run
loop_head ==
    /\ pc = "LoopHead"
    /\ IF replies_made < max_replies_per_run
       THEN /\ pc' = "Scanning"
            /\ found_candidate' = FALSE
            /\ post_data' = NoPost
            /\ search_attempts' = 0
       ELSE /\ pc' = "QuotaReached"
            /\ UNCHANGED <<found_candidate, post_data, search_attempts>>
    /\ UNCHANGED <<session, operator, failed_cycles, harness, cookies, config, conn, db, replies_made, consecutive_failures,
                   reply_text, success, time_since_last, history, accounting>>

\* the for loop without the test of is_appropriate_tweet
Accepted_unfiltered(visible, stale, read_err) ==
    {e \in visible \ stale :
        /\ Extracted[e] # NoPost
        /\ ~has_replied(Extracted[e].tweet_id, read_err)}

\* the elements of one scan that pass every check of the for loop;
\* stale: elements whose checks raised, read_err: has_replied queries raised
Accepted(visible, stale, read_err) ==
    {e \in visible \ stale :
        /\ Extracted[e] # NoPost
        /\ ~has_replied(Extracted[e].tweet_id, read_err)
        /\ e \in Appropriate}

\* the search loop written as search_attempts <= 10
scan_attempt_le ==
    /\ pc = "Scanning"
    /\ ~found_candidate /\ search_attempts <= MAX_SEARCH_ATTEMPTS
    /\ search_attempts' = search_attempts + 1
    /\ \E visible \in VisibleSets, read_err \in BOOLEAN :
       \E stale \in {{}} \cup {{e} : e \in visible} :
          LET ok == Accepted(visible, stale, read_err)
              queried == \E e \in visible \ stale : Extracted[e] # NoPost
          IN  /\ IF ok = {}
                 THEN UNCHANGED <<found_candidate, post_data>>
                 ELSE /\ found_candidate' = TRUE
                      /\ \E e \in ok : post_data' = Extracted[e]
              /\ store_ok' = (store_ok /\ ~(queried /\ (read_err \/ conn # "open")))
              /\ succeeded' = IF store_ok' THEN succeeded ELSE {}
              /\ added' = IF store_ok' THEN added ELSE {}
    /\ UNCHANGED <<pc, session, operator, failed_cycles, harness, cookies, config, conn, db, replies_made, consecutive_failures,
                   reply_text, success, time_since_last, history>>

\* one pass of the search loop: scroll, list the visible elements, shuffle,
\* take the first that passes
scan_attempt ==
    /\ pc = "Scanning"
    /\ ~found_candidate /\ search_attempts < MAX_SEARCH_ATTEMPTS
    /\ search_attempts' = search_attempts + 1
    /\ \E visible \in VisibleSets, read_err \in BOOLEAN :
       \E stale \in {{}} \cup {{e} : e \in visible} :
          LET ok == Accepted(visible, stale, read_err)
              queried == \E e \in visible \ stale : Extracted[e] # NoPost
          IN  /\ IF ok = {}
                 THEN UNCHANGED <<found_candidate, post_data>>
                 ELSE /\ found_candidate' = TRUE
                      /\ \E e \in ok : post_data' = Extracted[e]
              /\ store_ok' = (store_ok /\ ~(queried /\ (read_err \/ conn # "open")))
              /\ succeeded' = IF store_ok' THEN succeeded ELSE {}
              /\ added' = IF store_ok' THEN added ELSE {}
    /\ UNCHANGED <<pc, session, operator, failed_cycles, harness, cookies, config, conn, db, replies_made, consecutive_failures,
                   reply_text, success, time_since_last, history>>

\* get_visible_tweet_elements raises and run_once has no outer handler: the
\* exception ends in the handler of start
scan_crash_uncaught ==
    /\ pc = "Scanning"
    /\ ~found_candidate /\ search_attempts < MAX_SEARCH_ATTEMPTS
    /\ pc' = "Finally"
    /\ consecutive_failures' = 0 /\ search_attempts' = 0
    /\ failed_cycles' = 0
    /\ UNCHANGED <<session, operator, harness, cookies, config, conn, db, replies_made, found_candidate, post_data,
                   reply_text, success, time_since_last, history, accounting>>

\* get_visible_tweet_elements raises: caught by the outer handler of run_once
scan_crash ==
    /\ pc = "Scanning"
    /\ ~found_candidate /\ search_attempts < MAX_SEARCH_ATTEMPTS
    /\ pc' = "CriticalError"
    /\ consecutive_failures' = 0 /\ search_attempts' = 0
    /\ failed_cycles' = 0
    /\ UNCHANGED <<session, operator, harness, cookies, config, conn, db, replies_made, found_candidate, post_data,
                   reply_text, success, time_since_last, history, accounting>>

\* the budget test written as consecutive_failures > MAX_FAILURES
selection_failed_gt ==
    /\ pc = "Scanning"
    /\ ~(~found_candidate /\ search_attempts < MAX_SEARCH_ATTEMPTS)
    /\ ~found_candidate \/ post_data = NoPost
    /\ consecutive_failures' = consecutive_failures + 1
    /\ pc' = IF consecutive_failures' > MAX_FAILURES THEN "Aborted" ELSE "LoopHead"
    /\ failed_cycles' = failed_cycles + 1
    /\ UNCHANGED <<session, operator, harness, cookies, config, conn, db, replies_made, search_attempts,
                   found_candidate, post_data, reply_text, success,
                   time_since_last, history, accounting>>

\* if not found_candidate or not post_data
selection_failed ==
    /\ pc = "Scanning"
    /\ ~(~found_candidate /\ search_attempts < MAX_SEARCH_ATTEMPTS)
    /\ ~found_candidate \/ post_data = NoPost
    /\ consecutive_failures' = consecutive_failures + 1
    /\ pc' = IF consecutive_failures' >= MAX_FAILURES THEN "Aborted" ELSE "LoopHead"
    /\ failed_cycles' = failed_cycles + 1
    /\ UNCHANGED <<session, operator, harness, cookies, config, conn, db, replies_made, search_attempts,
                   found_candidate, post_data, reply_text, success,
                   time_since_last, history, accounting>>

\* a candidate was found and taken to the rate limiting with no reply
\* generated for it
selection_succeeded_ungenerated ==
    /\ pc = "Scanning"
    /\ ~(~found_candidate /\ search_attempts < MAX_SEARCH_ATTEMPTS)
    /\ ~(~found_candidate \/ post_data = NoPost)
    /\ consecutive_failures' = 0
    /\ search_attempts' = 0
    /\ pc' = "RateLimiting"
    /\ failed_cycles' = 0
    /\ UNCHANGED <<session, operator, harness, cookies, config, conn, db, replies_made, found_candidate, post_data,
                   reply_text, success, time_since_last, history, accounting>>

\* a candidate was found and the failure counter left as it was
selection_succeeded_unreset ==
    /\ pc = "Scanning"
    /\ ~(~found_candidate /\ search_attempts < MAX_SEARCH_ATTEMPTS)
    /\ ~(~found_candidate \/ post_data = NoPost)
    /\ search_attempts' = 0
    /\ pc' = "Generating"
    /\ failed_cycles' = 0
    /\ UNCHANGED <<session, operator, harness, cookies, config, conn, db, replies_made, found_candidate, post_data,
                   reply_text, success, time_since_last, history, accounting, consecutive_failures>>

\* a candidate was found: reset the failure counter
selection_succeeded ==
    /\ pc = "Scanning"
    /\ ~(~found_candidate /\ search_attempts < MAX_SEARCH_ATTEMPTS)
    /\ ~(~found_candidate \/ post_data = NoPost)
    /\ consecutive_failures' = 0
    /\ search_attempts' = 0
    /\ pc' = "Generating"
    /\ failed_cycles' = 0
    /\ UNCHANGED <<session, operator, harness, cookies, config, conn, db, replies_made, found_candidate, post_data,
                   reply_text, success, time_since_last, history, accounting>>

\* reply_text = self.reply_engine.generate_reply(tweet_text, username)
generate ==
    /\ pc = "Generating"
    /\ \E r \in Replies : reply_text' = r
    /\ \E d \in Durations : time_since_last' = Advance(time_since_last, d)
    /\ attempted' = attempted \cup {post_data.tweet_id}
    /\ pc' = "Approval"
    /\ UNCHANGED <<session, operator, failed_cycles, harness, cookies, config, conn, db, replies_made, consecutive_failures,
                   search_attempts, found_candidate, post_data, success, written, accounting>>

\* if self.manual_approval: print the tweet and the reply, sleep 5 s, go on;
\* nothing is read from the operator, whatever they make of the reply
approval ==
    /\ pc = "Approval"
    /\ IF manual_approval
       THEN \E verdict \in {"approve", "decline"} : operator' = verdict
       ELSE UNCHANGED operator
    /\ time_since_last' = IF manual_approval
                          THEN Advance(time_since_last, APPROVAL_SLEEP)
                          ELSE time_since_last
    /\ pc' = "RateLimiting"
    /\ UNCHANGED <<session, failed_cycles, harness, cookies, config, conn, db, locals, history, accounting>>

\* the rate-limiting test written as time_since_last > min_delay
RateLimitWaitInverted(since) ==
    IF since > min_delay_between_replies
    THEN Advance(since, min_delay_between_replies - since)
    ELSE since

\* the clock difference after the rate-limiting block
RateLimitWait(since) ==
    IF since < min_delay_between_replies
    THEN Advance(since, min_delay_between_replies - since)
    ELSE since

rate_limit ==
    /\ pc = "RateLimiting"
    /\ time_since_last' = RateLimitWait(time_since_last)
    /\ pc' = "Submitting"
    /\ UNCHANGED <<session, operator, failed_cycles, harness, cookies, config, conn, db, locals, history, accounting>>

\* success = self.action_performer.reply_to_tweet(article_element, reply_text)
submit ==
    /\ pc = "Submitting"
    /\ \E click_ok \in BOOLEAN, type_ok \in BOOLEAN, post_ok \in BOOLEAN :
          /\ success' = IF reply_to_tweet(click_ok, type_ok, post_ok)
                        THEN "true" ELSE "false"
          /\ succeeded' = IF store_ok /\ reply_to_tweet(click_ok, type_ok, post_ok)
                          THEN succeeded \cup {post_data.tweet_id} ELSE succeeded
    /\ \E d \in Durations : time_since_last' = Advance(time_since_last, d)
    /\ pc' = "Submitted"
    /\ UNCHANGED <<session, operator, failed_cycles, harness, cookies, config, conn, db, replies_made, consecutive_failures,
                   search_attempts, found_candidate, post_data, reply_text,
                   history, store_ok, added>>

\* the success branch without replies_made += 1
on_success_uncounted ==
    /\ pc = "Submitted"
    /\ success = "true"
    /\ \E write_err \in BOOLEAN :
          /\ db' = mark_replied(post_data.tweet_id, post_data.username,
                                post_data.text, reply_text, write_err)
          /\ written' = IF conn # "open" \/ write_err THEN written
                        ELSE [written EXCEPT ![post_data.tweet_id] = Min(@ + 1, MaxWrites)]
          /\ store_ok' = (store_ok /\ ~(conn # "open" \/ write_err))
          /\ added' = IF store_ok' THEN added \cup {post_data.tweet_id} ELSE {}
          /\ succeeded' = IF store_ok' THEN succeeded ELSE {}
    /\ \E sleep_time \in SleepChoices : time_since_last' = Advance(0, sleep_time)
    /\ success' = "none"
    /\ found_candidate' = FALSE /\ post_data' = NoPost /\ reply_text' = None
    /\ pc' = "LoopHead"
    /\ operator' = "none"
    /\ UNCHANGED <<session, failed_cycles, harness, cookies, config, conn, replies_made, consecutive_failures,
                   search_attempts, attempted>>

\* the success branch with a mark_replied that lets its exception out, up to
\* the outer handler of run_once
on_success_write_raises ==
    /\ pc = "Submitted"
    /\ success = "true"
    /\ \E write_err \in BOOLEAN :
          /\ db' = mark_replied(post_data.tweet_id, post_data.username,
                                post_data.text, reply_text, write_err)
          /\ written' = IF conn # "open" \/ write_err THEN written
                        ELSE [written EXCEPT ![post_data.tweet_id] = Min(@ + 1, MaxWrites)]
          /\ store_ok' = (store_ok /\ ~(conn # "open" \/ write_err))
          /\ added' = IF store_ok' THEN added \cup {post_data.tweet_id} ELSE {}
          /\ succeeded' = IF store_ok' THEN succeeded ELSE {}
          /\ pc' = IF conn # "open" \/ write_err THEN "CriticalError" ELSE "LoopHead"
    /\ replies_made' = replies_made + 1
    /\ \E sleep_time \in SleepChoices : time_since_last' = Advance(0, sleep_time)
    /\ success' = "none"
    /\ found_candidate' = FALSE /\ post_data' = NoPost /\ reply_text' = None
    /\ operator' = "none"
    /\ UNCHANGED <<session, failed_cycles, harness, cookies, config, conn, consecutive_failures, search_attempts, attempted>>

\* the success branch counting the reply only when its row was written
on_success_counts_recorded ==
    /\ pc = "Submitted"
    /\ success = "true"
    /\ \E write_err \in BOOLEAN :
          /\ db' = mark_replied(post_data.tweet_id, post_data.username,
                                post_data.text, reply_text, write_err)
          /\ written' = IF conn # "open" \/ write_err THEN written
                        ELSE [written EXCEPT ![post_data.tweet_id] = Min(@ + 1, MaxWrites)]
          /\ store_ok' = (store_ok /\ ~(conn # "open" \/ write_err))
          /\ added' = IF store_ok' THEN added \cup {post_data.tweet_id} ELSE {}
          /\ succeeded' = IF store_ok' THEN succeeded ELSE {}
    /\ replies_made' = IF db' = db THEN replies_made ELSE replies_made + 1
    /\ \E sleep_time \in SleepChoices : time_since_last' = Advance(0, sleep_time)
    /\ success' = "none"
    /\ found_candidate' = FALSE /\ post_data' = NoPost /\ reply_text' = None
    /\ pc' = "LoopHead"
    /\ operator' = "none"
    /\ UNCHANGED <<session, failed_cycles, harness, cookies, config, conn, consecutive_failures, search_attempts, attempted>>

\* if success: mark_replied, count, stamp the time, sleep
on_success ==
    /\ pc = "Submitted"
    /\ success = "true"
    /\ \E write_err \in BOOLEAN :
          /\ db' = mark_replied(post_data.tweet_id, post_data.username,
                                post_data.text, reply_text, write_err)
          /\ written' = IF conn # "open" \/ write_err THEN written
                        ELSE [written EXCEPT ![post_data.tweet_id] = Min(@ + 1, MaxWrites)]
          /\ store_ok' = (store_ok /\ ~(conn # "open" \/ write_err))
          /\ added' = IF store_ok' THEN added \cup {post_data.tweet_id} ELSE {}
          /\ succeeded' = IF store_ok' THEN succeeded ELSE {}
    /\ replies_made' = replies_made + 1
    /\ \E sleep_time \in SleepChoices : time_since_last' = Advance(0, sleep_time)
    /\ success' = "none"
    /\ found_candidate' = FALSE /\ post_data' = NoPost /\ reply_text' = None
    /\ pc' = "LoopHead"
    /\ operator' = "none"
    /\ UNCHANGED <<session, failed_cycles, harness, cookies, config, conn, consecutive_failures, search_attempts, attempted>>

\* the failure branch recording the reply all the same
on_failure_records ==
    /\ pc = "Submitted"
    /\ success # "true"
    /\ db' = mark_replied(post_data.tweet_id, post_data.username,
                          post_data.text, reply_text, FALSE)
    /\ success' = "none"
    /\ found_candidate' = FALSE /\ post_data' = NoPost /\ reply_text' = None
    /\ pc' = "LoopHead"
    /\ operator' = "none"
    /\ UNCHANGED <<session, failed_cycles, harness, cookies, config, conn, replies_made, consecutive_failures,
                   search_attempts, time_since_last, history, accounting>>

\* the failure branch counting against the selection failure budget
on_failure_counted ==
    /\ pc = "Submitted"
    /\ success # "true"
    /\ consecutive_failures' = consecutive_failures + 1
    /\ success' = "none"
    /\ found_candidate' = FALSE /\ post_data' = NoPost /\ reply_text' = None
    /\ pc' = "LoopHead"
    /\ operator' = "none"
    /\ UNCHANGED <<session, failed_cycles, harness, cookies, config, conn, db, replies_made, search_attempts,
                   time_since_last, history, accounting>>

\* the failure branch counting the reply as made
on_failure_counts_reply ==
    /\ pc = "Submitted"
    /\ success # "true"
    /\ replies_made' = replies_made + 1
    /\ success' = "none"
    /\ found_candidate' = FALSE /\ post_data' = NoPost /\ reply_text' = None
    /\ pc' = "LoopHead"
    /\ operator' = "none"
    /\ UNCHANGED <<session, failed_cycles, harness, cookies, config, conn, db, consecutive_failures,
                   search_attempts, time_since_last, history, accounting>>

\* the failure branch setting self.last_reply_time
on_failure_stamps ==
    /\ pc = "Submitted"
    /\ success # "true"
    /\ success' = "none"
    /\ found_candidate' = FALSE /\ post_data' = NoPost /\ reply_text' = None
    /\ time_since_last' = 0
    /\ pc' = "LoopHead"
    /\ operator' = "none"
    /\ UNCHANGED <<session, failed_cycles, harness, cookies, config, conn, db, replies_made,
                   consecutive_failures, search_attempts, history, accounting>>

\* a failed submission taken to the outer handler of run_once
on_failure_ends_run ==
    /\ pc = "Submitted"
    /\ success # "true"
    /\ success' = "none"
    /\ found_candidate' = FALSE /\ post_data' = NoPost /\ reply_text' = None
    /\ pc' = "CriticalError"
    /\ operator' = "none"
    /\ UNCHANGED <<session, failed_cycles, harness, cookies, config, conn, db, replies_made, consecutive_failures,
                   search_attempts, time_since_last, history, accounting>>

\* else: log "Reply action failed" and go round the loop
on_failure ==
    /\ pc = "Submitted"
    /\ success # "true"
    /\ success' = "none"
    /\ found_candidate' = FALSE /\ post_data' = NoPost /\ reply_text' = None
    /\ pc' = "LoopHead"
    /\ operator' = "none"
    /\ UNCHANGED <<session, failed_cycles, harness, cookies, config, conn, db, replies_made, consecutive_failures,
                   search_attempts, time_since_last, history, accounting>>

\* run_continuous giving up after a run that was aborted
run_end_stops_on_abort ==
    /\ pc \in RunEndPcs
    /\ IF continuous /\ pc # "Aborted"
       THEN /\ pc' = "RunOnce"
            /\ \E interval_minutes \in {0, 1} :
                  time_since_last' = Advance(time_since_last, interval_minutes * 60)
       ELSE /\ pc' = "Finally"
            /\ UNCHANGED time_since_last
    /\ replies_made' = 0 /\ consecutive_failures' = 0 /\ search_attempts' = 0
    /\ attempted' = {}
    /\ store_ok' = (conn = "open") /\ succeeded' = {} /\ added' = {}
    /\ failed_cycles' = 0
    /\ UNCHANGED <<session, operator, harness, cookies, config, conn, db, found_candidate, post_data, reply_text,
                   success, written>>

\* run_once returns; run_continuous sleeps and runs again, start goes to cleanup
run_end ==
    /\ pc \in RunEndPcs
    /\ IF continuous
       THEN /\ pc' = "RunOnce"
            /\ \E interval_minutes \in {0, 1} :
                  time_since_last' = Advance(time_since_last, interval_minutes * 60)
       ELSE /\ pc' = "Finally"
            /\ UNCHANGED time_since_last
    /\ replies_made' = 0 /\ consecutive_failures' = 0 /\ search_attempts' = 0
    /\ attempted' = {}
    /\ store_ok' = (conn = "open") /\ succeeded' = {} /\ added' = {}
    /\ failed_cycles' = 0
    /\ UNCHANGED <<session, operator, harness, cookies, config, conn, db, found_candidate, post_data, reply_text,
                   success, written>>

\* KeyboardInterrupt, at any point of a run or of the sleep between runs:
\* the frame of run_once is unwound and its locals are gone
interrupt ==
    /\ pc \in RunPcs \/ (pc \in RunEndPcs /\ continuous)
    /\ pc' = "Interrupted"
    /\ replies_made' = 0 /\ consecutive_failures' = 0 /\ search_attempts' = 0
    /\ found_candidate' = FALSE /\ post_data' = NoPost /\ reply_text' = None
    /\ success' = "none"
    /\ attempted' = {}
    /\ store_ok' = (conn = "open") /\ succeeded' = {} /\ added' = {}
    /\ operator' = "none"
    /\ failed_cycles' = 0
    /\ UNCHANGED <<session, harness, cookies, config, conn, db, time_since_last, written>>

\* session_manager.save_cookies: the cookies of the driver pickled into the
\* file, or the exception of get_cookies, open or dump logged and False
save_cookies(saved) == IF saved THEN "saved" ELSE "failed"

\* Database.close
close == IF conn = "open" THEN "closed" ELSE conn

\* cleanup without self.db.close()
cleanup_leaves_open ==
    /\ pc \in {"Finally", "Interrupted"}
    /\ IF session \in {"login_failed", "ready"}
       THEN \E saved \in BOOLEAN : cookies' = save_cookies(saved)
       ELSE UNCHANGED cookies
    /\ pc' = "Exited"
    /\ UNCHANGED <<session, operator, failed_cycles, harness, config, conn, db, locals, time_since_last,
                   history, accounting>>

\* XReplyBot.cleanup, in the finally of start: with a driver, save_cookies
\* and quit; then self.db.close()
cleanup ==
    /\ pc \in {"Finally", "Interrupted"}
    /\ IF session \in {"login_failed", "ready"}
       THEN \E saved \in BOOLEAN : cookies' = save_cookies(saved)
       ELSE UNCHANGED cookies
    /\ conn' = close
    /\ pc' = "Exited"
    /\ UNCHANGED <<session, operator, failed_cycles, harness, config, db, locals, time_since_last, history, accounting>>

Next ==
    \/ start
    \/ run_once_enter
    \/ loop_head
    \/ scan_attempt
    \/ scan_crash
    \/ selection_failed
    \/ selection_succeeded
    \/ generate
    \/ approval
    \/ rate_limit
    \/ submit
    \/ on_success
    \/ on_failure
    \/ run_end
    \/ interrupt
    \/ cleanup

Spec == Init /\ [][Next]_vars

\* the single thread of control always takes its next step
FairSpec == Spec /\ WF_vars(Next)

---------------------------------------------------------------------------
(* The components on their own: one call of one of them, on inputs drawn  *)
(* from the sets above, with the orchestrator at rest                     *)

\* the orchestrator's own state
bot == <<pc, config, conn, db, locals, time_since_last, history, accounting, session,
         operator, cookies, failed_cycles>>

\* the state of each component's call
generator == <<attempt, responses, sleeps, gen_reply>>
filter == <<filter_text, appropriate>>
candidate == <<article_element, p_data>>
dispatch == <<steps, returned>>
for_loop == <<visible_elements, skipped>>

\* what a step of one component leaves alone
beside_generator == <<bot, unit, filter, candidate, dispatch, for_loop>>
beside_filter == <<bot, unit, generator, candidate, dispatch, for_loop>>
beside_candidate == <<bot, unit, generator, filter, dispatch, for_loop>>
beside_dispatch == <<bot, unit, generator, filter, candidate, for_loop>>
beside_for_loop == <<bot, unit, generator, filter, dispatch>>

\* ReplyEngine.generate_reply: reply = self._query_ollama(...) and the rest
\* of the try body of one pass of the retry loop
query ==
    /\ unit = "generate_reply" /\ unit_pc = "Query"
    /\ \E id \in ResponseIds :
          /\ responses' = Append(responses, id)
          /\ IF raises[id]
             THEN unit_pc' = "Except" /\ gen_reply' = gen_reply
             ELSE unit_pc' = "Returned" /\ gen_reply' = cleaned[id]
    /\ UNCHANGED <<attempt, sleeps, beside_generator>>

\* the handler of the retry loop going on after the last attempt too
handler_retries_on ==
    /\ unit = "generate_reply" /\ unit_pc = "Except"
    /\ unit_pc' = "Sleep"
    /\ UNCHANGED <<attempt, responses, sleeps, gen_reply, beside_generator>>

\* except Exception of the retry loop: go on to the backoff, or raise again
\* after the last attempt, which the outer handler catches
handler ==
    /\ unit = "generate_reply" /\ unit_pc = "Except"
    /\ unit_pc' = IF attempt < max_retries - 1 THEN "Sleep" ELSE "Reraised"
    /\ UNCHANGED <<attempt, responses, sleeps, gen_reply, beside_generator>>

\* time.sleep(2) and the next pass of for attempt in range(max_retries)
backoff ==
    /\ unit = "generate_reply" /\ unit_pc = "Sleep"
    /\ sleeps' = sleeps + 1
    /\ attempt' = attempt + 1
    /\ unit_pc' = "Query"
    /\ UNCHANGED <<responses, gen_reply, beside_generator>>

\* the outer handler returning the reply the last attempt left behind
fallback_keeps_reply ==
    /\ unit = "generate_reply" /\ unit_pc = "Reraised"
    /\ unit_pc' = "Returned"
    /\ UNCHANGED <<attempt, responses, sleeps, gen_reply, beside_generator>>

\* the outer except Exception: return self._fallback_reply(tweet_text)
fallback ==
    /\ unit = "generate_reply" /\ unit_pc = "Reraised"
    /\ \E phrase \in fallbacks : gen_reply' = phrase
    /\ unit_pc' = "Returned"
    /\ UNCHANGED <<attempt, responses, sleeps, beside_generator>>

\* ReplyEngine.is_appropriate_tweet, called on filter_text
is_appropriate ==
    /\ unit = "is_appropriate_tweet" /\ unit_pc = "Call"
    /\ appropriate' = IF is_appropriate_tweet(filter_text) THEN "true" ELSE "false"
    /\ unit_pc' = "Returned"
    /\ UNCHANGED <<filter_text, beside_filter>>

\* the body of for element in visible_elements, on article_element:
\* p_data = self.post_fetcher.extract_post_data(element), if not p_data
extract ==
    /\ unit = "candidate" /\ unit_pc = "Extract"
    /\ p_data' = extract_post_data(article_element)
    /\ unit_pc' = IF p_data' = NoPost THEN "Discarded" ELSE "CheckHistory"
    /\ UNCHANGED <<article_element, beside_candidate>>

\* if self.db.has_replied(tweet_id): continue
check_history ==
    /\ unit = "candidate" /\ unit_pc = "CheckHistory"
    /\ \E read_err \in BOOLEAN :
          unit_pc' = IF has_replied(p_data.tweet_id, read_err)
                     THEN "Skipped" ELSE "CheckSuitability"
    /\ UNCHANGED <<candidate, beside_candidate>>

\* if not self.reply_engine.is_appropriate_tweet(p_data['text']): continue
check_suitability ==
    /\ unit = "candidate" /\ unit_pc = "CheckSuitability"
    /\ unit_pc' = IF is_appropriate_tweet(p_data.text) THEN "Selected" ELSE "Skipped"
    /\ UNCHANGED <<candidate, beside_candidate>>

\* what the body of the for loop makes of one element: raised is an
\* exception during its checks, which the except of the body catches
Verdict(element, raised, read_err) ==
    IF raised THEN "raised"
    ELSE IF Extracted[element] = NoPost THEN "no_data"
    ELSE IF has_replied(Extracted[element].tweet_id, read_err) THEN "replied"
    ELSE IF element \notin Appropriate THEN "unsuitable"
    ELSE "accepted"

\* the for loop with its try around the whole loop: the first element
\* without data, or whose checks raise, ends the scan
for_element_outer_try ==
    /\ unit = "for_loop" /\ unit_pc = "Element"
    /\ article_element' = visible_elements[Len(skipped) + 1]
    /\ \E raised \in BOOLEAN, read_err \in BOOLEAN :
          LET verdict == Verdict(article_element', raised, read_err)
          IN  IF verdict = "accepted"
              THEN /\ p_data' = Extracted[article_element']
                   /\ unit_pc' = "Found"
                   /\ UNCHANGED skipped
              ELSE /\ skipped' = Append(skipped, verdict)
                   /\ unit_pc' = IF \/ Len(skipped') = Len(visible_elements)
                                    \/ verdict \in {"raised", "no_data"}
                                 THEN "Exhausted" ELSE "Element"
                   /\ UNCHANGED p_data
    /\ UNCHANGED <<visible_elements, beside_for_loop>>

\* one pass of for element in visible_elements (bot.py:183-210): continue
\* on an element without data, replied to, unsuitable or whose checks
\* raised; break on the first that passes
for_element ==
    /\ unit = "for_loop" /\ unit_pc = "Element"
    /\ article_element' = visible_elements[Len(skipped) + 1]
    /\ \E raised \in BOOLEAN, read_err \in BOOLEAN :
          LET verdict == Verdict(article_element', raised, read_err)
          IN  IF verdict = "accepted"
              THEN /\ p_data' = Extracted[article_element']
                   /\ unit_pc' = "Found"
                   /\ UNCHANGED skipped
              ELSE /\ skipped' = Append(skipped, verdict)
                   /\ unit_pc' = IF Len(skipped') = Len(visible_elements)
                                 THEN "Exhausted" ELSE "Element"
                   /\ UNCHANGED p_data
    /\ UNCHANGED <<visible_elements, beside_for_loop>>

\* the first step with neither click_reply_button nor reply_to_tweet
\* catching the exception
click_uncaught ==
    /\ unit = "reply_to_tweet" /\ unit_pc = "Click"
    /\ \E outcome \in StepOutcomes :
          /\ steps' = Append(steps, outcome)
          /\ IF outcome = "done"
             THEN unit_pc' = "Type" /\ returned' = returned
             ELSE /\ unit_pc' = "Returned"
                  /\ returned' = IF outcome = "raised" THEN "raised" ELSE "false"
    /\ UNCHANGED beside_dispatch

\* ActionPerformer.reply_to_tweet: if not self.click_reply_button(...)
click ==
    /\ unit = "reply_to_tweet" /\ unit_pc = "Click"
    /\ \E outcome \in StepOutcomes :
          /\ steps' = Append(steps, outcome)
          /\ IF click_reply_button(outcome)
             THEN unit_pc' = "Type" /\ returned' = returned
             ELSE unit_pc' = "Returned" /\ returned' = "false"
    /\ UNCHANGED beside_dispatch

\* the second step with its result not looked at
type_unchecked ==
    /\ unit = "reply_to_tweet" /\ unit_pc = "Type"
    /\ \E outcome \in StepOutcomes : steps' = Append(steps, outcome)
    /\ unit_pc' = "Post"
    /\ UNCHANGED <<returned, beside_dispatch>>

\* if not self.type_reply(reply_text): return False
type ==
    /\ unit = "reply_to_tweet" /\ unit_pc = "Type"
    /\ \E outcome \in StepOutcomes :
          /\ steps' = Append(steps, outcome)
          /\ IF type_reply(outcome)
             THEN unit_pc' = "Post" /\ returned' = returned
             ELSE unit_pc' = "Returned" /\ returned' = "false"
    /\ UNCHANGED beside_dispatch

\* if not self.post_reply(): return False, else return True
post ==
    /\ unit = "reply_to_tweet" /\ unit_pc = "Post"
    /\ \E outcome \in PostOutcomes :
          /\ steps' = Append(steps, outcome)
          /\ returned' = IF post_reply(outcome) THEN "true" ELSE "false"
    /\ unit_pc' = "Returned"
    /\ UNCHANGED beside_dispatch

\* the call site of reply_to_tweet (bot.py:256-260): on True the row is
\* written and the reply counted
call_site ==
    /\ unit = "reply_to_tweet" /\ unit_pc = "Returned"
    /\ IF returned = "true"
       THEN /\ \E write_err \in BOOLEAN :
                  /\ db' = mark_replied(post_data.tweet_id, post_data.username,
                                        post_data.text, reply_text, write_err)
                  /\ written' = IF write_err THEN written
                                ELSE [written EXCEPT ![post_data.tweet_id] =
                                                         Min(@ + 1, MaxWrites)]
            /\ replies_made' = replies_made + 1
       ELSE UNCHANGED <<db, written, replies_made>>
    /\ unit_pc' = "Handled"
    /\ UNCHANGED <<pc, config, conn, consecutive_failures, search_attempts, found_candidate,
                   post_data, reply_text, success, time_since_last, attempted, accounting,
                   session, operator, cookies, failed_cycles, unit, generator, filter,
                   candidate, dispatch, for_loop>>

\* one component is called; the orchestrator has not started
UnitInit ==
    /\ pc = "Start"
    /\ continuous = FALSE /\ manual_approval = FALSE
    /\ conn = "open"
    /\ db \in {{}, {OldRow}}
    /\ replies_made = 0 /\ consecutive_failures = 0 /\ search_attempts = 0
    /\ found_candidate = FALSE
    /\ success = "none"
    /\ time_since_last = TimeCap
    /\ written = [t \in TweetIds |-> IF \E r \in db : r.tweet_id = t THEN 1 ELSE 0]
    /\ attempted = {}
    /\ store_ok = TRUE /\ succeeded = {} /\ added = {}
    /\ session = "none"
    /\ operator = "none"
    /\ cookies = "none"
    /\ failed_cycles = 0
    /\ unit \in {"generate_reply", "is_appropriate_tweet", "candidate",
                 "reply_to_tweet", "for_loop"}
    /\ unit_pc = CASE unit = "generate_reply" -> "Query"
                   [] unit = "candidate" -> "Extract"
                   [] unit = "for_loop" -> "Element"
                   [] unit = "reply_to_tweet" -> "Click"
                   [] OTHER -> "Call"
    /\ attempt = 0 /\ responses = <<>> /\ sleeps = 0
    /\ gen_reply = <<>>
    /\ IF unit = "is_appropriate_tweet"
       THEN filter_text \in FilterTexts
       ELSE filter_text = NoText
    /\ appropriate = "none"
    /\ IF unit = "candidate"
       THEN article_element \in CandidateElements
       ELSE article_element = NoElement
    /\ p_data = NoPost
    /\ steps = <<>> /\ returned = "none"
    /\ IF unit = "for_loop"
       THEN visible_elements \in VisibleLists
       ELSE visible_elements = <<>>
    /\ skipped = <<>>
    /\ IF unit = "reply_to_tweet"
       THEN post_data \in Suitable /\ reply_text \in Replies
       ELSE post_data = NoPost /\ reply_text = None

UnitNext ==
    \/ query
    \/ handler
    \/ backoff
    \/ fallback
    \/ is_appropriate
    \/ extract
    \/ check_history
    \/ check_suitability
    \/ for_element
    \/ click
    \/ type
    \/ post
    \/ call_site

UnitSpec == UnitInit /\ [][UnitNext]_vars

---------------------------------------------------------------------------
(* Claims *)

\* the loop is scanning, generating or submitting
WorkPcs == {"LoopHead", "Scanning", "Generating", "Approval", "RateLimiting",
            "Submitting", "Submitted"}
RowsOf(t) == {r \in db : r.tweet_id = t}

\* C1: the generator and the dispatcher are never invoked for a tweet id
\* that is already in the history store
C1_Dedup ==
    pc \in {"Generating", "Approval", "RateLimiting", "Submitting"}
        => ~InStore(post_data.tweet_id)

\* C2: for every tweet id, at most one successful reply is ever made and
\* recorded
C2_AtMostOneReply == \A t \in TweetIds : written[t] <= 1

\* C3: the table changes only in the step that handles a submission that
\* returned success, and only in the row of the tweet submitted to
C3_WriteAfterSuccess ==
    [][db' # db =>
          /\ pc = "Submitted" /\ success = "true"
          /\ \A r \in (db' \ db) \cup (db \ db') : r.tweet_id = post_data.tweet_id]_vars

\* a row was written in this process, after a submission that succeeded
C3_Witness ==
    pc = "LoopHead" /\ replies_made = 1 /\ \E r \in db : r # OldRow

\* C4: a submission never starts less than min_delay_between_replies after
\* the last successful reply
C4_RateLimit ==
    pc = "Submitting" => time_since_last >= min_delay_between_replies

\* a second submission starts exactly when the spacing has elapsed
C4_Witness ==
    pc = "Submitting" /\ replies_made = 1
        /\ time_since_last = min_delay_between_replies

\* C5: with MAX_FAILURES failed selection cycles in a row the run is
\* Aborted, and an aborted run does no further lookup, generation or
\* submission
C5_FailureBudget ==
    /\ [](consecutive_failures <= MAX_FAILURES)
    /\ [](consecutive_failures >= MAX_FAILURES => pc \notin WorkPcs)
    /\ [][pc = "Aborted" =>
             /\ pc' \in {"RunOnce", "Finally", "Interrupted"}
             /\ UNCHANGED <<db, written>>]_vars

\* a run aborted by the budget after it had made a reply
C5_Witness ==
    pc = "Aborted" /\ consecutive_failures = MAX_FAILURES /\ replies_made = 1

\* C6: replies_made never exceeds max_replies_per_run, and once it has
\* reached it the run scans, generates and submits no more
C6_Quota ==
    /\ replies_made <= max_replies_per_run
    /\ replies_made = max_replies_per_run
          => pc \notin {"Scanning", "Generating", "Approval", "RateLimiting",
                        "Submitting", "Submitted"}
    /\ pc = "QuotaReached" => replies_made = max_replies_per_run

\* a run that ended with its quota used up
C6_Witness == pc = "QuotaReached" /\ replies_made = max_replies_per_run

---------------------------------------------------------------------------
(* C7: termination *)

\* no call of the run raised and nobody interrupted it
NoAbnormal == pc \notin {"Interrupted", "CriticalError"}
InRun == pc \in RunPcs
SubmitFailed == pc = "Submitted" /\ success = "false"

\* C7: every run of the loop eventually reaches QuotaReached or Aborted,
\* whatever the collaborators return
C7_Termination ==
    ([]NoAbnormal) => (InRun ~> pc \in {"QuotaReached", "Aborted"})

\* C7, amended: a run in which submissions fail only finitely often
\* eventually reaches QuotaReached or Aborted
C7_TerminationUnlessFailingForever ==
    (([]NoAbnormal) /\ <>[](~SubmitFailed)) => (InRun ~> pc \in {"QuotaReached", "Aborted"})

\* a run that ended although one of its submissions had failed
C7_Witness ==
    pc = "Aborted" /\ replies_made = 1 /\ Cardinality(attempted) = 2

\* C8: a failed submission leaves replies_made, the history store and
\* consecutive_failures as they were, does not move the last-success time,
\* and the loop goes round
C8_SubmitFailureFrame ==
    [][/\ (pc = "Submitting" /\ pc' = "Submitted" /\ success' = "false")
            => /\ UNCHANGED <<db, replies_made, consecutive_failures>>
               /\ time_since_last' >= time_since_last
       /\ (pc = "Submitted" /\ success = "false" /\ pc' # "Interrupted")
            => /\ pc' = "LoopHead"
               /\ UNCHANGED <<db, replies_made, consecutive_failures,
                              time_since_last>>]_vars

\* a submission failed in a run that had already made a reply
C8_Witness == pc = "Submitted" /\ success = "false" /\ replies_made = 1

\* C9: within one run no tweet id is handed to the generator twice
C9_OneAttemptPerRun ==
    ~(pc = "Generating" /\ post_data.tweet_id \in attempted)

\* C10: after mark_replied the table holds exactly one row for the tweet
\* id, with the reply_text of that call, and the other rows are unchanged
C10_IdempotentRecord ==
    /\ [](\A t \in TweetIds :
             Cardinality(RowsOf(t)) = IF written[t] > 0 THEN 1 ELSE 0)
    /\ [][(pc = "Submitted" /\ success = "true" /\ pc' = "LoopHead") =>
             \/ db' = db
             \/ /\ {r \in db' : r.tweet_id = post_data.tweet_id}
                      = {[tweet_id |-> post_data.tweet_id,
                          username |-> post_data.username,
                          tweet_text |-> post_data.text,
                          reply_text |-> reply_text]}
                /\ {r \in db' : r.tweet_id # post_data.tweet_id}
                      = {r \in db : r.tweet_id # post_data.tweet_id}]_vars

\* the row of one tweet id has been written twice and is still one row
C10_Witness ==
    \E t \in TweetIds : written[t] = 2 /\ Cardinality(RowsOf(t)) = 1

\* the row mark_replied writes for the candidate at hand
RowAtHand ==
    [tweet_id |-> post_data.tweet_id, username |-> post_data.username,
     tweet_text |-> post_data.text, reply_text |-> reply_text]

\* C16: after a submission that succeeded the run goes on with its next
\* loop iteration whether the write of the row worked or not: no exception
\* sends run_once to its handler, the reply is counted, and the table
\* either holds the new row or is as it was
C16_WriteFailureNonFatal ==
    [][pc = "Submitted" /\ success = "true" /\ pc' # "Interrupted" =>
          /\ pc' = "LoopHead"
          /\ replies_made' = replies_made + 1
          /\ consecutive_failures' = consecutive_failures
          /\ db' = db \/ db' = InsertOrReplace(db, RowAtHand)]_vars

\* a reply was made, its write failed on an open connection, and the run
\* is scanning for the next candidate
C16_Witness ==
    /\ pc = "Scanning" /\ replies_made = 1
    /\ conn = "open" /\ db = {}

\* C17: when setup_driver or login_if_needed fails, start goes to its
\* cleanup and exits: the run loop is never entered, so nothing is looked
\* up, generated or submitted, and the history is not written
C17_LoginFailureFatal ==
    /\ [](session \in {"no_driver", "login_failed"} =>
            /\ pc \in {"Finally", "Exited"}
            /\ replies_made = 0 /\ search_attempts = 0
            /\ post_data = NoPost /\ reply_text = None /\ success = "none"
            /\ attempted = {})
    /\ [][session' \in {"no_driver", "login_failed"} => UNCHANGED <<db, written>>]_vars

\* the login failed and the process has exited
C17_Witness ==
    session = "login_failed" /\ pc = "Exited"

\* C18: whatever fails during run_once (the scan, a read or a write of the
\* history, the submission), run_once is left only through one of its
\* returns, with replies_made as counted so far, or by an interrupt: no
\* step takes the control from inside the run to the handlers of its
\* callers
C18_NoEscape ==
    [][(pc \in RunPcs /\ pc' \notin RunPcs) =>
          (pc' \in RunEndPcs /\ replies_made' = replies_made) \/ pc' = "Interrupted"]_vars

\* the scan raised after one reply: run_once is about to return 1
C18_Witness ==
    pc = "CriticalError" /\ replies_made = 1

\* a run is under way, or is about to return
DuringRun == pc \in RunPcs \cup RunEndPcs

\* the tweet whose submission has returned True and whose success branch
\* (mark_replied, replies_made += 1) is still to run
Unbooked ==
    IF pc = "Submitted" /\ success = "true" THEN {post_data.tweet_id} ELSE {}

\* C20: while every store operation of the run has worked, replies_made is
\* the number of submissions that returned success in the run and the ids
\* written to the store in the run are the ids of those submissions, at
\* every point of the run (under store_ok no id is submitted twice with
\* success, so the number of the submissions is that of their ids)
C20_Accounting ==
    DuringRun /\ store_ok =>
        /\ replies_made = Cardinality(succeeded)
        /\ added = succeeded

\* C20, as it holds: the same, but for the submission that has just
\* returned success and is not yet recorded and counted; the ids written
\* are in the store, and no id of a rejected element is among them
C20_AccountingOnceBooked ==
    DuringRun /\ store_ok =>
        /\ replies_made = Cardinality(succeeded \ Unbooked)
        /\ added = succeeded \ Unbooked
        /\ \A t \in added : InStore(t)
        /\ \A e \in Elements :
              Extracted[e] = NoPost \/ e \notin Appropriate => e.tweet_id \notin added

\* the scenario of the spec: the run replied to tweet 2 alone, the store
\* was empty before and holds tweet 2 alone now
C20_Witness ==
    /\ pc = "LoopHead" /\ store_ok /\ replies_made = 1
    /\ succeeded = {"2"} /\ added = {"2"}
    /\ {r.tweet_id : r \in db} = {"2"} /\ written["2"] = 1

\* C21: in manual-approval mode the orchestrator waits for the operator
\* before Submitting, and a candidate the operator declined goes back to
\* scanning: it is not handed to the dispatcher and no row is written for it
C21_DeclineSkips ==
    /\ [](operator = "decline" => pc \notin {"Submitting", "Submitted"})
    /\ [][operator = "decline" => UNCHANGED <<db, written>>]_vars

\* the driver exists: setup_driver returned True
HasDriver == session \in {"login_failed", "ready"}

LoopLeft == pc \in RunPcs /\ pc' \notin RunPcs /\ pc' # "Interrupted"

\* C23: without an interrupt, run_once leaves its loop only with the quota
\* reached (replies_made = max_replies_per_run) or aborted
\* (consecutive_failures at the budget); nothing else a collaborator does
\* ends the run
C23_ExitConditions ==
    [][LoopLeft =>
          \/ pc' = "QuotaReached" /\ replies_made' = max_replies_per_run
          \/ pc' = "Aborted" /\ consecutive_failures' = MAX_FAILURES]_vars

\* C23 as the code has it: there is a third exit, the outer handler of
\* run_once, taken when the navigation to the feed or a scan raises; a
\* submission that failed or raised does not end the run
C23_ExitConditionsWithCritical ==
    [][LoopLeft =>
          \/ pc' = "QuotaReached" /\ replies_made' = max_replies_per_run
          \/ pc' = "Aborted" /\ consecutive_failures' = MAX_FAILURES
          \/ pc' = "CriticalError" /\ pc \in {"RunOnce", "Scanning"}]_vars

\* a run ended by the outer handler after one reply, short of the quota
C23_Witness ==
    pc = "CriticalError" /\ replies_made = 1 /\ replies_made < max_replies_per_run

\* the position before each position of one iteration, as run_once is written
Before(p) ==
    CASE p = "Generating" -> "Scanning"
      [] p = "Approval" -> "Generating"
      [] p = "RateLimiting" -> "Approval"
      [] p = "Submitting" -> "RateLimiting"
      [] p = "Submitted" -> "Submitting"

C25_BoundedScanning ==
    /\ [](search_attempts \in 0..MAX_SEARCH_ATTEMPTS)
    /\ [][search_attempts' = search_attempts + 1 =>
            ~found_candidate /\ search_attempts < MAX_SEARCH_ATTEMPTS]_vars
    /\ [][pc = "Scanning" /\ pc' \in {"LoopHead", "Aborted"} =>
            /\ ~found_candidate /\ search_attempts = MAX_SEARCH_ATTEMPTS
            /\ consecutive_failures' = consecutive_failures + 1]_vars
    /\ [][pc = "Scanning" /\ pc' = "Generating" =>
            found_candidate /\ search_attempts <= MAX_SEARCH_ATTEMPTS]_vars

\* the second cycle in a row that used its 10 attempts in vain
C25_Witness ==
    /\ pc = "LoopHead" /\ search_attempts = MAX_SEARCH_ATTEMPTS
    /\ ~found_candidate /\ consecutive_failures = 2

\* C26: consecutive_failures is set to 0 by every successful selection, so
\* at every point of a run it is the number of selection cycles that failed
\* since the last successful one (or the start of the run); it stays within
\* 0..5, and the run is aborted only when the last 5 cycles all failed
C26_ConsecutiveFailures ==
    /\ [](consecutive_failures \in 0..MAX_FAILURES)
    /\ [](consecutive_failures = failed_cycles)
    /\ [](pc = "Aborted" => failed_cycles = MAX_FAILURES)
    /\ [][pc = "Scanning" /\ pc' = "Generating" => consecutive_failures' = 0]_vars

\* a reply was sent in this run and the cycle after it failed: the count is
\* 1, whatever it was before the selection
C26_Witness ==
    /\ pc = "LoopHead" /\ replies_made = 1 /\ consecutive_failures = 1
    /\ search_attempts = MAX_SEARCH_ATTEMPTS

\* C27: the candidate handed to the generator and the dispatcher is one for
\* which, in the same selection cycle, has_replied returned false and
\* is_appropriate_tweet returned true; a candidate that either check
\* rejected is not generated for or submitted in that cycle.  has_replied
\* returning false means no row for the id when the reads of the run worked
C27_SelectionChecks ==
    /\ [][pc = "Scanning" /\ ~found_candidate /\ found_candidate' =>
            /\ post_data' \in Suitable
            /\ store_ok' => ~InStore(post_data'.tweet_id)]_vars
    /\ [](pc \in {"Generating", "Approval", "RateLimiting", "Submitting", "Submitted"} =>
            /\ post_data \in Suitable
            /\ store_ok => ~InStore(post_data.tweet_id))

\* with the row of tweet 2 in the store and every read working, tweet 3 is
\* at the generator
C27_Witness ==
    /\ pc = "Generating" /\ store_ok /\ InStore("2")
    /\ post_data.tweet_id = "3" /\ post_data \in Suitable

\* C28: only a successful reply causes a rate-limit wait: the first
\* submission of a process is not delayed, and a failed submission or a
\* failed selection cycle neither starts a wait nor moves the time of the
\* last success.  time_since_last falls only when self.last_reply_time is
\* set, and the rate limiting waits only when it is below the spacing
C28_WaitOnlyAfterSuccess ==
    /\ [][time_since_last' < time_since_last =>
            /\ pc = "Submitted" /\ success = "true"
            /\ replies_made' = replies_made + 1]_vars
    /\ [](~continuous /\ pc \in RunPcs /\ replies_made = 0 =>
            time_since_last = TimeCap)
    /\ [][pc = "RateLimiting" /\ pc' = "Submitting" /\ time_since_last' # time_since_last =>
            time_since_last < min_delay_between_replies
            /\ (replies_made > 0 \/ continuous)]_vars
    /\ [][pc = "Submitted" /\ success # "true" => UNCHANGED time_since_last]_vars
    /\ [][pc = "Scanning" /\ pc' \in {"LoopHead", "Aborted"} =>
            UNCHANGED time_since_last]_vars

\* the submission of a first candidate failed; a second one is at the rate
\* limiting with no reply sent yet and nothing to wait for
C28_Witness ==
    /\ pc = "RateLimiting" /\ ~continuous /\ replies_made = 0
    /\ Cardinality(attempted) = 2
    /\ time_since_last = TimeCap

\* a run begins: run_once has made its locals and gone to the feed
RunBegins == pc = "RunOnce" /\ pc' \in {"LoopHead", "CriticalError"}

\* run_continuous goes from the end of a run, through its sleep, to the next
RunFollows == pc \in RunEndPcs /\ pc' = "RunOnce"

\* C31: in continuous mode every run starts afresh: replies_made,
\* consecutive_failures and the time of the last success of one run do not
\* carry over into the next, which begins as the first run of a process
\* does, with no success to wait after
C31_FreshRunState ==
    [][RunBegins =>
          /\ replies_made' = 0 /\ consecutive_failures' = 0
          /\ time_since_last' = TimeCap]_vars

\* C31 as the code has it: the two counters are locals of run_once and
\* start at 0 in every run; the time of the last success is a field of the
\* bot, which the end of a run leaves alone: the next run begins with the
\* time that has passed since the last success of the run before, the
\* interval between the runs included
C31_FreshCountersKeptClock ==
    /\ [][RunBegins =>
            /\ replies_made' = 0 /\ consecutive_failures' = 0
            /\ UNCHANGED time_since_last]_vars
    /\ [][RunFollows =>
            \E interval_minutes \in {0, 1} :
                time_since_last' = Advance(time_since_last, interval_minutes * 60)]_vars

\* a run of a continuous process begins 20 s after the last success of the
\* run before
C31_Witness ==
    /\ pc = "RunOnce" /\ continuous /\ replies_made = 0 /\ consecutive_failures = 0
    /\ time_since_last = SLEEP_MIN /\ time_since_last < min_delay_between_replies

\* C34: when the history store cannot be read (the query raises, or there
\* is no connection since the store did not open), has_replied returns false
\* and does not raise: every candidate, one with a row too, then counts as
\* not replied to and may be selected; with the reads working one with a
\* row is not selected
C34_ReadsFailOpen ==
    /\ \A t \in TweetIds :
          /\ ~has_replied(t, TRUE)
          /\ conn # "open" => ~has_replied(t, FALSE)
          /\ conn = "open" => (has_replied(t, FALSE) <=> InStore(t))
    /\ pc \in {"Generating", "Approval", "RateLimiting", "Submitting"}
          /\ InStore(post_data.tweet_id) => ~store_ok

\* the store did not open; tweet 2, which has a row in it, was selected
C34_Witness ==
    /\ pc = "Generating" /\ conn = "none"
    /\ post_data.tweet_id = "2" /\ OldRow \in db

\* the success branch is passed and the store has no row for the tweet
\* replied to
RecordLost ==
    /\ pc = "Submitted" /\ success = "true" /\ pc' = "LoopHead"
    /\ \A r \in db' : r.tweet_id # post_data.tweet_id

\* C35: a reply that was sent counts against the quota even when its row
\* is lost: with the write of mark_replied failing, replies_made still
\* grows by one and the time of the last success is still set, while the
\* tweet has no row in the store and so passes the selection again in the
\* same run
C35_LostRecordCounts ==
    /\ [][RecordLost =>
            /\ replies_made' = replies_made + 1
            /\ \E sleep_time \in SleepChoices :
                  time_since_last' = Advance(0, sleep_time)
            /\ db' = db]_vars
    /\ [](\A e \in Appropriate :
            Extracted[e] # NoPost /\ ~InStore(Extracted[e].tweet_id) =>
                e \in Accepted({e}, {}, FALSE))

\* the reply to tweet 3 was sent and counted, its row was lost, and tweet 3
\* is selected again in the same run
C35_Witness ==
    /\ pc = "Approval" /\ replies_made = 1 /\ conn = "open" /\ db = {}
    /\ attempted = {"3"} /\ post_data.tweet_id = "3"

\* C37: in continuous mode a run that ended with its budget or its quota
\* used up is followed, after the interval, by a new run, which begins with
\* replies_made and consecutive_failures at 0; only an interrupt ends the
\* sequence of runs
C37_ContinuousOutlivesAbort ==
    /\ [][(continuous /\ pc \in {"Aborted", "QuotaReached"}) =>
            /\ pc' \in {"RunOnce", "Interrupted"}
            /\ time_since_last' >= time_since_last]_vars
    /\ [][(continuous /\ RunBegins) =>
            replies_made' = 0 /\ consecutive_failures' = 0]_vars
    /\ [][(continuous /\ pc \in RunPcs \cup RunEndPcs
                      /\ pc' \notin RunPcs \cup RunEndPcs) =>
            pc' = "Interrupted"]_vars
    /\ [](continuous /\ session = "ready" => pc # "Finally")

\* a later run of a continuous process: nothing counted yet, and in the
\* store a row that an earlier run of the process wrote
C37_Witness ==
    /\ continuous /\ pc = "LoopHead"
    /\ replies_made = 0 /\ consecutive_failures = 0
    /\ \E r \in db : r # OldRow

---------------------------------------------------------------------------
(* Claims about the components *)

\* C11: whatever the backend responded on each attempt (a text of any
\* length, with or without a period among its first 197 characters, an
\* empty text or an error), the string generate_reply returns is between 5
\* and 200 characters long
C11_LengthBound ==
    unit = "generate_reply" /\ unit_pc = "Returned" => Len(gen_reply) >= 5 /\ Len(gen_reply) <= 200

\* a response of 201 characters without a period came back cut, with the dots
C11_Witness ==
    /\ unit_pc = "Returned" /\ responses = <<"error", "len201">>
    /\ Len(gen_reply) = 200
    /\ SubSeq(gen_reply, 198, 200) = <<".", ".", ".">>

\* every response of the call so far made its attempt raise
AllAttemptsFailed == \A i \in 1..Len(responses) : raises[responses[i]]

\* C12: when every attempt of a call fails (error, empty or too short a
\* result), the exception of the last attempt does not leave
\* generate_reply: the call returns, and what it returns is a non-empty
\* phrase of the fallback set
C12_Fallback ==
    /\ [](unit = "generate_reply" /\ unit_pc = "Returned" /\ AllAttemptsFailed
             => gen_reply \in fallbacks /\ gen_reply # <<>>)
    /\ [][unit_pc = "Reraised" => unit_pc' = "Returned"]_vars

\* three failed attempts, of three kinds, and a phrase returned
C12_Witness ==
    /\ unit_pc = "Returned" /\ responses = <<"error", "empty", "two">>
    /\ gen_reply \in fallbacks

\* C13: one call queries the backend at most 3 times; every response but
\* the last one was unacceptable, so no query follows an acceptable reply;
\* each backoff is followed by a query, so that at the end of the call
\* there is one backoff fewer than queries
C13_BoundedRetries ==
    /\ Len(responses) <= 3
    /\ \A i \in 1..(Len(responses) - 1) : raises[responses[i]]
    /\ sleeps = IF responses = <<>> THEN 0
                ELSE IF unit_pc = "Query" THEN Len(responses)
                ELSE Len(responses) - 1

\* the third attempt gave an acceptable reply, after two backoffs
C13_Witness ==
    /\ unit_pc = "Returned" /\ Len(responses) = 3 /\ sleeps = 2
    /\ ~raises[responses[3]] /\ gen_reply = cleaned[responses[3]]

\* C14: is_appropriate_tweet returns true exactly when the text is not
\* empty, has at least 10 characters once trimmed, holds no deny-list term
\* as a substring whatever the case, and is not an entirely upper-case text
\* of more than 20 characters; the call changes nothing of the run or of
\* the history
C14_Filter ==
    /\ [](unit = "is_appropriate_tweet" /\ unit_pc = "Returned" =>
            (appropriate = "true" <=>
                /\ filter_text # ""
                /\ Len(strip(Chars(filter_text))) >= 10
                /\ ~\E word \in blocklist :
                      Contains(lower(word), lower(Chars(filter_text)))
                /\ ~(isupper(Chars(filter_text)) /\ Len(Chars(filter_text)) > 20)))
    /\ [][unit = "is_appropriate_tweet" => UNCHANGED bot]_vars

\* a text of 10 characters between two blanks was accepted
C14_Witness ==
    /\ unit = "is_appropriate_tweet" /\ unit_pc = "Returned"
    /\ filter_text = " tenchars!! " /\ appropriate = "true"

\* the element has a tweet id and a text of at least 10 characters
HasIdAndText ==
    /\ article_element.tweet_id # None
    /\ Len(Chars(article_element.text)) >= 10

\* C15: an element goes on to the checks of the selection exactly when it
\* has a tweet id and a text of at least 10 characters; one that lacks
\* either is discarded by the extraction, before the history and the
\* suitability checks; one without an extractable author goes on, with the
\* author "unknown"
C15_CandidateValidity ==
    /\ [](unit = "candidate" /\ unit_pc # "Extract" =>
            /\ unit_pc # "Discarded" <=> HasIdAndText
            /\ unit_pc # "Discarded" =>
                  /\ p_data.tweet_id = article_element.tweet_id
                  /\ p_data.text = article_element.text
                  /\ p_data.username = IF article_element.username = None
                                       THEN "unknown"
                                       ELSE article_element.username)
    /\ [][unit = "candidate" /\ unit_pc = "Extract" /\ ~HasIdAndText
            => unit_pc' = "Discarded"]_vars
    /\ [][unit = "candidate" /\ unit_pc = "Discarded" => FALSE]_vars

\* an element without an author was selected, as of "unknown"
C15_Witness ==
    /\ unit = "candidate" /\ unit_pc = "Selected"
    /\ article_element.username = None /\ p_data.username = "unknown"

\* C19: reply_to_tweet ends in a return value, never in an exception, and
\* the value is false whenever one of its steps (the click on the reply
\* button, the typing, the posting) was given up or raised
C19_FailureAsValue ==
    unit = "reply_to_tweet" =>
        /\ returned # "raised"
        /\ unit_pc = "Returned" =>
              /\ returned \in {"true", "false"}
              /\ (\E i \in 1..Len(steps) : steps[i] \in {"failed", "raised"})
                    => returned = "false"

\* the reply box opened, the typing raised, and the call returned false
C19_Witness ==
    /\ unit = "reply_to_tweet" /\ unit_pc = "Returned"
    /\ steps = <<"done", "raised">> /\ returned = "false"

\* the response of the attempt that returned
Last == responses[Len(responses)]
AttemptReturned ==
    /\ unit = "generate_reply" /\ unit_pc = "Returned"
    /\ responses # <<>> /\ ~raises[Last]

\* C29: a cleaned result of more than 200 characters comes back as its
\* prefix up to the last period among its first 197 characters when there
\* is one, and else as its first 197 characters and three dots; a result of
\* at most 200 characters comes back whole
C29_Truncation ==
    AttemptReturned =>
        LET result == tidied[Last]
        IN  IF Len(result) <= 200 THEN gen_reply = result
            ELSE IF \E n \in 1..197 : result[n] = "."
            THEN \E n \in 1..197 :
                    /\ result[n] = "."
                    /\ \A m \in (n + 1)..197 : result[m] # "."
                    /\ gen_reply = SubSeq(result, 1, n)
            ELSE gen_reply = SubSeq(result, 1, 197) \o <<".", ".", ".">>

\* a result of 252 characters with periods at 51 and 102 came back cut
\* after the second
C29_Witness ==
    /\ AttemptReturned /\ Last = "two_periods"
    /\ Len(tidied[Last]) = 252
    /\ Len(gen_reply) = 102 /\ gen_reply[102] = "." /\ gen_reply[51] = "."

\* per response: the backend answered and the result of the attempt, cleaned
\* and cut, has fewer than 5 characters
too_short == [id \in ResponseIds |->
                /\ _query_ollama(Response(id)) # <<>>
                /\ Len(truncate(tidied[id])) < 5]

\* C30: an attempt whose cleaned (and possibly cut) result has fewer than 5
\* characters has failed: its result is not returned, and the next attempt
\* follows or, after the last attempt, the fallback
C30_MinimumLength ==
    /\ [][unit = "generate_reply" /\ unit_pc = "Query" /\ responses' # responses
            /\ too_short[responses'[Len(responses')]] =>
            unit_pc' = "Except" /\ gen_reply' = gen_reply]_vars
    /\ [][unit = "generate_reply" /\ unit_pc = "Except" /\ unit_pc' # unit_pc =>
            unit_pc' = IF Len(responses) < max_retries THEN "Sleep" ELSE "Reraised"]_vars
    /\ [][unit = "generate_reply" /\ unit_pc = "Sleep" /\ unit_pc' # unit_pc =>
            unit_pc' = "Query" /\ attempt' = attempt + 1]_vars
    /\ [][unit = "generate_reply" /\ unit_pc = "Reraised" /\ unit_pc' # unit_pc =>
            unit_pc' = "Returned" /\ gen_reply' \in fallbacks]_vars
    /\ [](unit = "generate_reply" /\ unit_pc = "Returned" =>
            /\ Len(gen_reply) >= 5
            /\ too_short[Last] =>
                  Len(responses) = max_retries /\ gen_reply \in fallbacks)

\* results of 2, 3 (after the cut at the period) and 4 characters: two
\* retries, then the fallback
C30_Witness ==
    /\ unit = "generate_reply" /\ unit_pc = "Returned"
    /\ responses = <<"two", "period_early", "four">>
    /\ sleeps = 2 /\ gen_reply \in fallbacks

\* the elements of the scan passed over so far for want of data or for an
\* exception during their checks
Noise == {i \in 1..Len(skipped) : skipped[i] \in {"no_data", "raised"}}

\* C32: an element whose data cannot be extracted (no id, no text) or
\* whose checks raise is passed over: the elements after it in the same scan
\* are still looked at, and passing it over does not touch
\* consecutive_failures
C32_ExtractionNoise ==
    /\ [][unit = "for_loop" /\ unit_pc = "Element" /\ skipped' # skipped
            /\ Len(skipped') < Len(visible_elements) => unit_pc' = "Element"]_vars
    /\ [](unit = "for_loop" /\ unit_pc = "Exhausted" =>
            Len(skipped) = Len(visible_elements))
    /\ [](unit = "for_loop" /\ unit_pc = "Found" =>
            /\ article_element = visible_elements[Len(skipped) + 1]
            /\ p_data = extract_post_data(article_element) /\ p_data # NoPost)
    /\ [](unit = "for_loop" =>
            \A i \in 1..Len(skipped) :
                extract_post_data(visible_elements[i]) = NoPost =>
                    skipped[i] \in {"no_data", "raised"})
    /\ [][unit = "for_loop" => UNCHANGED <<consecutive_failures, failed_cycles>>]_vars

\* an element without data and one whose checks raised were passed over,
\* and the third of the scan was selected
C32_Witness ==
    /\ unit = "for_loop" /\ unit_pc = "Found"
    /\ skipped = <<"no_data", "raised">>
    /\ p_data.tweet_id = "3" /\ consecutive_failures = 0

\* C33: reply_to_tweet clicks the reply button, types and posts, in that
\* order; it returns true only if each of the three steps returned true, and
\* after the first step that failed it takes none of the later ones: it
\* never posts when the typing failed
C33_StepOrder ==
    unit = "reply_to_tweet" =>
        /\ Len(steps) <= 3
        /\ unit_pc = "Click" <=> steps = <<>>
        /\ unit_pc = "Type" => Len(steps) = 1
        /\ unit_pc = "Post" => Len(steps) = 2
        /\ \A i \in 1..(Len(steps) - 1) : click_reply_button(steps[i]) /\ type_reply(steps[i])
        /\ unit_pc = "Returned" =>
              (returned = "true" <=>
                  /\ Len(steps) = 3
                  /\ click_reply_button(steps[1])
                  /\ type_reply(steps[2])
                  /\ post_reply(steps[3]))

\* the reply box opened, nothing could be typed into it: no third step
C33_Witness ==
    /\ unit = "reply_to_tweet" /\ unit_pc = "Returned"
    /\ steps = <<"done", "failed">> /\ returned = "false"

\* the post button was clicked and the wait for the reply box to close
\* timed out
Unconfirmed ==
    unit = "reply_to_tweet" /\ Len(steps) = 3 /\ steps[3] = "unconfirmed"

\* C36: once the post button is clicked, post_reply returns true even when
\* the reply box was not seen to close: reply_to_tweet returns true, and its
\* caller writes the row of the tweet and counts the reply, with no
\* confirmation that the reply was posted
C36_UnconfirmedCounts ==
    /\ [](Unconfirmed => returned = "true")
    /\ [][(Unconfirmed /\ unit_pc = "Returned" /\ unit_pc' = "Handled") =>
            /\ replies_made' = replies_made + 1
            /\ db' = db \/ db' = InsertOrReplace(db, RowAtHand)]_vars
    /\ [](Unconfirmed /\ unit_pc = "Handled" => replies_made = 1)

\* the reply box did not close in time; the row is written and the reply
\* counted
C36_Witness ==
    /\ Unconfirmed /\ unit_pc = "Handled" /\ replies_made = 1
    /\ RowAtHand \in db

=============================================================================
